---- MODULE Spec2Model ----
(***************************************************************************)
(* wopr-plugin-websearch: the web_search tool.                             *)
(*                                                                         *)
(* The model follows src/src/web-search.ts: the SSRF classifier            *)
(* (isPrivateUrl and its helpers), the result filter, the per-provider     *)
(* token bucket, the provider factory, the provider order and the          *)
(* handler's fallback loop, together with the count each backend client    *)
(* sends to its API (src/src/providers/*.ts).                              *)
(*                                                                         *)
(* Conventions.                                                            *)
(*   - A JavaScript value that may be undefined is a tuple of length 0 or  *)
(*     1: <<>> is undefined, <<v>> is the value v.                         *)
(*   - Time is in milliseconds (Date.now()).  Tokens are counted in units  *)
(*     of 1/OneToken token, the amount one millisecond refills, so that    *)
(*     the bucket arithmetic stays in the integers.                        *)
(***************************************************************************)
EXTENDS Integers, Sequences, FiniteSets, TLC

\* ------------------------------------------------------------------------
\* JavaScript helpers
\* ------------------------------------------------------------------------

Undefined == <<>>

Some(v) == <<v>>

\* a ?? b
Coalesce(a, b) == IF a # Undefined THEN a ELSE b

\* !s for a string that may be undefined: undefined and "" are falsy
Falsy(s) == s = Undefined \/ s = Some("")

Min(a, b) == IF a <= b THEN a ELSE b

Max(a, b) == IF a >= b THEN a ELSE b

\* s.startsWith(prefix)
StartsWith(s, prefix) ==
    /\ Len(s) >= Len(prefix)
    /\ SubSeq(s, 1, Len(prefix)) = prefix

\* s.slice(0, n) of an array
Take(s, n) == SubSeq(s, 1, Min(Len(s), Max(n, 0)))

\* ------------------------------------------------------------------------
\* Strings
\* ------------------------------------------------------------------------

CharAt(s, i) == SubSeq(s, i, i)

DecDigits == "0123456789"

HexDigits == "0123456789abcdef"

UpperCase == "ABCDEFGHIJKLMNOPQRSTUVWXYZ"

LowerCase == "abcdefghijklmnopqrstuvwxyz"

\* the first index of the one-character string c in s, 0 when absent
IndexOfChar(s, c) ==
    IF \E i \in 1..Len(s) : CharAt(s, i) = c
    THEN CHOOSE i \in 1..Len(s) :
            /\ CharAt(s, i) = c
            /\ \A j \in 1..(i - 1) : CharAt(s, j) # c
    ELSE 0

\* the last index of the one-character string c in s, 0 when absent
LastIndexOfChar(s, c) ==
    IF \E i \in 1..Len(s) : CharAt(s, i) = c
    THEN CHOOSE i \in 1..Len(s) :
            /\ CharAt(s, i) = c
            /\ \A j \in (i + 1)..Len(s) : CharAt(s, j) # c
    ELSE 0

AllCharsIn(s, alphabet) == \A i \in 1..Len(s) : IndexOfChar(alphabet, CharAt(s, i)) > 0

LowerChar(c) ==
    IF IndexOfChar(UpperCase, c) > 0
    THEN CharAt(LowerCase, IndexOfChar(UpperCase, c))
    ELSE c

\* s.toLowerCase() (ASCII)
RECURSIVE toLowerCase(_)
toLowerCase(s) ==
    IF s = "" THEN ""
    ELSE LowerChar(CharAt(s, 1)) \o toLowerCase(SubSeq(s, 2, Len(s)))

\* s.split(sep) for a one-character separator
RECURSIVE Split(_, _)
Split(s, sep) ==
    LET i == IndexOfChar(s, sep)
    IN  IF i = 0 THEN <<s>>
        ELSE <<SubSeq(s, 1, i - 1)>> \o Split(SubSeq(s, i + 1, Len(s)), sep)

\* String(n) for an integer n >= 0
RECURSIVE DecString(_)
DecString(n) ==
    IF n < 10 THEN CharAt(DecDigits, n + 1)
    ELSE DecString(n \div 10) \o CharAt(DecDigits, (n % 10) + 1)

\* ------------------------------------------------------------------------
\* Numbers up to 2^32 - 1
\*
\* A non-negative integer is kept as [hi, lo] with value hi * 2^16 + lo,
\* 0 <= lo < 2^16.  hi saturates at 2^16: every value above 0xffffffff is
\* [hi |-> 2^16], which is all the code asks of such a value.
\* ------------------------------------------------------------------------

Two16 == 256 * 256

NumZero == [hi |-> 0, lo |-> 0]

\* num * radix + digit
NumPush(num, radix, digit) ==
    LET l == num.lo * radix + digit
        h == num.hi * radix + (l \div Two16)
    IN  [hi |-> Min(h, Two16), lo |-> l % Two16]

\* num <= 0xffffffff
NumFits32(num) == num.hi < Two16

\* the value of the digit string s in the given radix (digits assumed valid)
RECURSIVE ParseRadixFrom(_, _, _)
ParseRadixFrom(num, s, radix) ==
    IF s = "" THEN num
    ELSE ParseRadixFrom(NumPush(num, radix, IndexOfChar(HexDigits, LowerChar(CharAt(s, 1))) - 1),
                        SubSeq(s, 2, Len(s)), radix)

ParseRadix(s, radix) == ParseRadixFrom(NumZero, s, radix)

IsDigitsOf(s, radix) == AllCharsIn(toLowerCase(s), SubSeq(HexDigits, 1, radix))

\* (num >>> 24) & 0xff and (num >>> 16) & 0xff of a value that fits 32 bits
OctetA(num) == num.hi \div 256

OctetB(num) == num.hi % 256

OctetC(num) == num.lo \div 256

OctetD(num) == num.lo % 256

\* ------------------------------------------------------------------------
\* new URL(urlStr): the part of the WHATWG URL parser the classifier reads
\*
\* ParseUrl covers absolute URL strings of the shape
\*     scheme "://" [userinfo "@"] host [":" port] ["/" | "?" | "#" ...]
\* and strings without a scheme (which new URL rejects).  It yields
\* Undefined where new URL throws, else the protocol and hostname
\* properties.  As in the platform parser, a host of an http(s) URL whose
\* last label is a number is an IPv4 address in decimal, octal or
\* hexadecimal notation with one to four parts and is serialised as a
\* dotted quad (http://2130706433/ and http://0x7f.1/ both have hostname
\* 127.0.0.1).  A bracketed IPv6 literal is expected in its serialised form
\* and is only lower-cased.
\* ------------------------------------------------------------------------

SchemeChars == LowerCase \o DecDigits \o "+-."

SpecialSchemes == {"http", "https", "ftp", "ws", "wss", "file"}

\* the index of the first of "/", "\", "?", "#" in s, Len(s) + 1 when none
AuthorityEnd(s) ==
    LET stops == {i \in 1..Len(s) : CharAt(s, i) \in {"/", "\\", "?", "#"}}
    IN  IF stops = {} THEN Len(s) + 1
        ELSE CHOOSE i \in stops : \A j \in stops : i <= j

\* the value of the digit string body in the given radix, Undefined when a
\* character is no digit of the radix
ParseDigits(body, radix) ==
    IF IsDigitsOf(body, radix) THEN Some(ParseRadix(body, radix)) ELSE Undefined

HasHexPrefix(part) == Len(part) >= 2 /\ toLowerCase(SubSeq(part, 1, 2)) = "0x"

\* the IPv4 number parser: a 0x prefix is hexadecimal, a leading 0 octal;
\* Undefined on failure
ParseIPv4Number(part) ==
    IF part = "" THEN Undefined
    ELSE IF HasHexPrefix(part) THEN ParseDigits(SubSeq(part, 3, Len(part)), 16)
    ELSE IF Len(part) >= 2 /\ CharAt(part, 1) = "0"
    THEN ParseDigits(SubSeq(part, 2, Len(part)), 8)
    ELSE ParseDigits(part, 10)

\* the labels of a host, a single trailing empty label removed
HostParts(host) ==
    LET parts == Split(host, ".")
    IN  IF Len(parts) > 1 /\ parts[Len(parts)] = ""
        THEN SubSeq(parts, 1, Len(parts) - 1) ELSE parts

LastOf(seq) == seq[Len(seq)]

\* "ends in a number": the last label is all digits or a valid 0x number
LabelIsNumber(last) ==
    /\ last # ""
    /\ \/ IsDigitsOf(last, 10)
       \/ (HasHexPrefix(last) /\ ParseIPv4Number(last) # Undefined)

EndsInNumber(host) == LabelIsNumber(LastOf(HostParts(host)))

\* the last of n parts must be below 256^(5 - n)
LastFits(last, n) ==
    CASE n = 1 -> NumFits32(last)
      [] n = 2 -> last.hi < 256
      [] n = 3 -> last.hi = 0
      [] n = 4 -> last.hi = 0 /\ last.lo < 256

NumOctets(num) == <<OctetA(num), OctetB(num), OctetC(num), OctetD(num)>>

\* the four octets of the address: every part but the last is one octet, the
\* last part fills the remaining ones
OctetsOf(nums) ==
    [i \in 1..4 |-> IF i < Len(nums) THEN nums[i][1].lo
                    ELSE NumOctets(LastOf(nums)[1])[i]]

DottedQuad(o) ==
    DecString(o[1]) \o "." \o DecString(o[2]) \o "." \o DecString(o[3]) \o "."
    \o DecString(o[4])

IPv4FromNumbers(nums) ==
    IF Len(nums) > 4 \/ \E i \in 1..Len(nums) : nums[i] = Undefined THEN Undefined
    ELSE IF \/ \E i \in 1..(Len(nums) - 1) : nums[i][1].hi # 0 \/ nums[i][1].lo > 255
            \/ ~LastFits(LastOf(nums)[1], Len(nums))
    THEN Undefined
    ELSE Some(DottedQuad(OctetsOf(nums)))

NumbersOf(parts) == [i \in 1..Len(parts) |-> ParseIPv4Number(parts[i])]

\* the IPv4 parser and serialiser: Undefined on failure, else the dotted quad
ParseIPv4(host) == IPv4FromNumbers(NumbersOf(HostParts(host)))

\* the index of the first "::" in s, 0 when absent
IndexOfCompress(s) ==
    IF \E i \in 1..(Len(s) - 1) : SubSeq(s, i, i + 1) = "::"
    THEN CHOOSE i \in 1..(Len(s) - 1) :
            /\ SubSeq(s, i, i + 1) = "::"
            /\ \A j \in 1..(i - 1) : SubSeq(s, j, j + 1) # "::"
    ELSE 0

\* the groups of a colon-separated text, none for the empty text
GroupsOf(text) == IF text = "" THEN <<>> ELSE Split(text, ":")

\* one to four hexadecimal digits
IsIPv6Group(group) == Len(group) \in 1..4 /\ IsDigitsOf(group, 16)

\* a decimal part of the IPv4 tail of an IPv6 address: digits without a
\* leading zero, at most 255
IsIPv4Piece(part) ==
    /\ Len(part) \in 1..3
    /\ IsDigitsOf(part, 10)
    /\ (Len(part) > 1 => CharAt(part, 1) # "0")
    /\ ParseRadix(part, 10).lo <= 255

IsIPv4Tail(group) ==
    /\ Len(Split(group, ".")) = 4
    /\ \A i \in 1..4 : IsIPv4Piece(Split(group, ".")[i])

\* the two 16-bit pieces of an IPv4 tail
IPv4TailPieces(parts) ==
    <<ParseRadix(parts[1], 10).lo * 256 + ParseRadix(parts[2], 10).lo,
      ParseRadix(parts[3], 10).lo * 256 + ParseRadix(parts[4], 10).lo>>

\* the 16-bit pieces of a sequence of groups, Undefined when a group is
\* neither one to four hexadecimal digits nor, in last place and when
\* allowed, an IPv4 tail
RECURSIVE PiecesOfGroups(_, _)
PiecesOfGroups(groups, tailAllowed) ==
    IF groups = <<>> THEN Some(<<>>)
    ELSE IF Len(groups) = 1 /\ tailAllowed /\ IsIPv4Tail(groups[1])
    THEN Some(IPv4TailPieces(Split(groups[1], ".")))
    ELSE IF ~IsIPv6Group(groups[1]) THEN Undefined
    ELSE IF PiecesOfGroups(Tail(groups), tailAllowed) = Undefined THEN Undefined
    ELSE Some(<<ParseRadix(groups[1], 16).lo>>
              \o PiecesOfGroups(Tail(groups), tailAllowed)[1])

\* the eight pieces of an address with "::" between the given pieces
ExpandCompressed(headOpt, tailOpt) ==
    IF headOpt = Undefined \/ tailOpt = Undefined THEN Undefined
    ELSE IF Len(headOpt[1]) + Len(tailOpt[1]) > 7 THEN Undefined
    ELSE Some(headOpt[1]
              \o [i \in 1..(8 - Len(headOpt[1]) - Len(tailOpt[1])) |-> 0]
              \o tailOpt[1])

\* the pieces of an address without "::": there must be eight
ExactlyEight(piecesOpt) ==
    IF piecesOpt = Undefined THEN Undefined
    ELSE IF Len(piecesOpt[1]) # 8 THEN Undefined
    ELSE piecesOpt

\* the IPv6 parser on the text between the brackets: its eight pieces,
\* Undefined on failure
IPv6PiecesAt(text, at) ==
    IF at = 0 THEN ExactlyEight(PiecesOfGroups(GroupsOf(text), TRUE))
    ELSE ExpandCompressed(PiecesOfGroups(GroupsOf(SubSeq(text, 1, at - 1)), FALSE),
                          PiecesOfGroups(GroupsOf(SubSeq(text, at + 2, Len(text))), TRUE))

ParseIPv6(text) == IPv6PiecesAt(text, IndexOfCompress(text))

\* n in lower-case hexadecimal without leading zeros
RECURSIVE HexString(_)
HexString(n) ==
    IF n < 16 THEN CharAt(HexDigits, n + 1)
    ELSE HexString(n \div 16) \o CharAt(HexDigits, (n % 16) + 1)

\* the number of consecutive zero pieces from position i on
RECURSIVE ZeroRun(_, _)
ZeroRun(pieces, i) ==
    IF i > Len(pieces) \/ pieces[i] # 0 THEN 0 ELSE 1 + ZeroRun(pieces, i + 1)

\* the length of the longest run of zero pieces
LongestZeroRun(pieces) ==
    CHOOSE n \in 0..8 :
        /\ \E i \in 1..9 : ZeroRun(pieces, i) = n
        /\ \A i \in 1..8 : ZeroRun(pieces, i) <= n

\* where the serialiser compresses: the first longest run of two or more
\* zero pieces, 0 when there is none
CompressStart(pieces, longest) ==
    IF longest < 2 THEN 0
    ELSE CHOOSE i \in 1..8 :
            /\ ZeroRun(pieces, i) = longest
            /\ \A j \in 1..(i - 1) : ZeroRun(pieces, j) # longest

RECURSIVE SerializeFrom(_, _, _, _)
SerializeFrom(pieces, i, start, longest) ==
    IF i > 8 THEN ""
    ELSE IF i = start
    THEN (IF i = 1 THEN "::" ELSE ":") \o SerializeFrom(pieces, i + longest, start, longest)
    ELSE HexString(pieces[i]) \o (IF i < 8 THEN ":" ELSE "")
         \o SerializeFrom(pieces, i + 1, start, longest)

SerializeWith(pieces, longest) ==
    SerializeFrom(pieces, 1, CompressStart(pieces, longest), longest)

\* the IPv6 serialiser
SerializeIPv6(pieces) == SerializeWith(pieces, LongestZeroRun(pieces))

\* the host of "[" text "]"
IPv6Host(piecesOpt) ==
    IF piecesOpt = Undefined THEN Undefined
    ELSE Some("[" \o SerializeIPv6(piecesOpt[1]) \o "]")

\* the host parser on a lower-cased host
ParseLowerHost(host) ==
    IF host = "" THEN Undefined
    ELSE IF CharAt(host, 1) = "["
    THEN IF CharAt(host, Len(host)) = "]"
         THEN IPv6Host(ParseIPv6(SubSeq(host, 2, Len(host) - 1)))
         ELSE Undefined
    ELSE IF ~AllCharsIn(host, LowerCase \o DecDigits \o "-._") THEN Undefined
    ELSE IF EndsInNumber(host) THEN ParseIPv4(host)
    ELSE Some(host)

\* the host parser for an http(s) URL: Undefined on failure
ParseHost(raw) == ParseLowerHost(toLowerCase(raw))

\* the authority of "//authority/path?query#fragment"
AuthorityOf(rest) ==
    SubSeq(rest, 3, 2 + AuthorityEnd(SubSeq(rest, 3, Len(rest))) - 1)

\* the authority without its userinfo
HostPortOf(authority) ==
    SubSeq(authority, LastIndexOfChar(authority, "@") + 1, Len(authority))

\* the index of the colon before the port, 0 when there is no port
PortColon(hostPort) ==
    IF IndexOfChar(hostPort, "]") > 0
    THEN IF IndexOfChar(hostPort, "]") < Len(hostPort)
         THEN IndexOfChar(hostPort, "]") + 1 ELSE 0
    ELSE IndexOfChar(hostPort, ":")

RawHostOf(hostPort) ==
    IF PortColon(hostPort) > 0 THEN SubSeq(hostPort, 1, PortColon(hostPort) - 1)
    ELSE hostPort

PortOf(hostPort) ==
    IF PortColon(hostPort) > 0 THEN SubSeq(hostPort, PortColon(hostPort) + 1, Len(hostPort))
    ELSE ""

HttpUrl(scheme, hostOpt, port) ==
    IF hostOpt = Undefined \/ ~IsDigitsOf(port, 10) \/ ParseRadix(port, 10).hi > 0
    THEN Undefined
    ELSE Some([protocol |-> scheme \o ":", hostname |-> hostOpt[1]])

\* the URL of scheme and "//" \o hostPort \o ...
ParseHierarchical(scheme, hostPort) ==
    IF scheme \in {"http", "https"}
    THEN HttpUrl(scheme, ParseHost(RawHostOf(hostPort)), PortOf(hostPort))
    ELSE Some([protocol |-> scheme \o ":", hostname |-> toLowerCase(RawHostOf(hostPort))])

IsScheme(scheme) ==
    /\ scheme # ""
    /\ AllCharsIn(scheme, SchemeChars)
    /\ IndexOfChar(LowerCase, CharAt(scheme, 1)) > 0

\* rest without its leading slashes and backslashes
RECURSIVE StripSlashes(_)
StripSlashes(rest) ==
    IF rest # "" /\ CharAt(rest, 1) \in {"/", "\\"} THEN StripSlashes(SubSeq(rest, 2, Len(rest)))
    ELSE rest

\* after "http:" or "https:" any number of slashes and backslashes, also
\* none, precedes the authority
ParseAfterScheme(scheme, rest) ==
    IF ~IsScheme(scheme) THEN Undefined
    ELSE IF scheme \in {"http", "https"}
    THEN ParseHierarchical(scheme, HostPortOf(AuthorityOf("//" \o StripSlashes(rest))))
    ELSE IF StartsWith(rest, "//")
    THEN ParseHierarchical(scheme, HostPortOf(AuthorityOf(rest)))
    ELSE IF scheme \in SpecialSchemes THEN Undefined
    ELSE Some([protocol |-> scheme \o ":", hostname |-> ""])

ParseUrl(urlStr) ==
    ParseAfterScheme(toLowerCase(SubSeq(urlStr, 1, IndexOfChar(urlStr, ":") - 1)),
                     SubSeq(urlStr, IndexOfChar(urlStr, ":") + 1, Len(urlStr)))

\* ------------------------------------------------------------------------
\* SSRF protection: the classifier of result URLs
\* ------------------------------------------------------------------------

PRIVATE_HOSTS ==
    {"localhost", "127.0.0.1", "::1", "0.0.0.0", "metadata.google.internal",
     "169.254.169.254"}

PRIVATE_CIDR_PREFIXES ==
    <<"10.", "127.", "169.254.",
      "172.16.", "172.17.", "172.18.", "172.19.", "172.20.", "172.21.",
      "172.22.", "172.23.", "172.24.", "172.25.", "172.26.", "172.27.",
      "172.28.", "172.29.", "172.30.", "172.31.",
      "192.168.", "0.", "100.64.", "198.18.", "198.19.">>

\* PRIVATE_CIDR_PREFIXES.some((prefix) => s.startsWith(prefix))
HasPrivatePrefix(s) ==
    \E i \in 1..Len(PRIVATE_CIDR_PREFIXES) : StartsWith(s, PRIVATE_CIDR_PREFIXES[i])

\* node:net isIPv4: four decimal parts 0..255 without leading zeros
IsIPv4(s) ==
    LET parts == Split(s, ".")
    IN  /\ Len(parts) = 4
        /\ \A i \in 1..4 :
              /\ parts[i] # ""
              /\ Len(parts[i]) <= 3
              /\ IsDigitsOf(parts[i], 10)
              /\ (Len(parts[i]) > 1 => CharAt(parts[i], 1) # "0")
              /\ ParseRadix(parts[i], 10).lo <= 255

\* node:net isIPv6 on the text between the brackets of a parsed host
IsIPv6(s) ==
    /\ Len(Split(s, ":")) >= 3
    /\ AllCharsIn(toLowerCase(s), HexDigits \o ":.")

\* node:net isIP
isIP(s) == IF IsIPv4(s) THEN 4 ELSE IF IsIPv6(s) THEN 6 ELSE 0

\* hostname.startsWith("[") ? hostname.slice(1, -1) : hostname
StripBrackets(hostname) ==
    IF StartsWith(hostname, "[") THEN SubSeq(hostname, 2, Len(hostname) - 1)
    ELSE hostname

\* [0-9a-f]{1,4}, case-insensitive
IsHexGroup(s) == Len(s) \in 1..4 /\ IsDigitsOf(s, 16)

\* \d{1,3}(?:\.\d{1,3}){3}
IsDottedDigits(s) ==
    LET parts == Split(s, ".")
    IN  /\ Len(parts) = 4
        /\ \A i \in 1..4 : Len(parts[i]) \in 1..3 /\ IsDigitsOf(parts[i], 10)

\* `${(hi >> 8) & 0xff}.${hi & 0xff}.${(lo >> 8) & 0xff}.${lo & 0xff}`
QuadOfGroups(hi, lo) ==
    DecString((hi \div 256) % 256) \o "." \o DecString(hi % 256) \o "."
    \o DecString((lo \div 256) % 256) \o "." \o DecString(lo % 256)

IsHexPair(groups) == Len(groups) = 2 /\ IsHexGroup(groups[1]) /\ IsHexGroup(groups[2])

\* the two regular expressions applied to what follows "::ffff:"
MappedFromGroups(rest, groups) ==
    IF IsHexPair(groups)
    THEN Some(QuadOfGroups(ParseRadix(groups[1], 16).lo, ParseRadix(groups[2], 16).lo))
    ELSE IF IsDottedDigits(rest) THEN Some(rest)
    ELSE Undefined

MappedFromRest(rest) == MappedFromGroups(rest, Split(rest, ":"))

MappedFromBare(bare) ==
    IF StartsWith(toLowerCase(bare), "::ffff:") THEN MappedFromRest(SubSeq(bare, 8, Len(bare)))
    ELSE Undefined

\* the regular expressions applied to the host with its brackets
extractMappedIPv4KeepBrackets(hostname) == MappedFromBare(hostname)

\* the dotted quad inside an IPv4-mapped IPv6 host, Undefined (null) when
\* the host is not one
extractMappedIPv4(hostname) == MappedFromBare(StripBrackets(hostname))

\* the range test of the decimal branch on a = (num >>> 24) & 0xff and
\* b = (num >>> 16) & 0xff
DecimalRangeHit(a, b) ==
    \/ a = 127
    \/ a = 10
    \/ (a = 172 /\ b >= 16 /\ b <= 31)
    \/ (a = 192 /\ b = 168)
    \/ (a = 169 /\ b = 254)
    \/ a = 0
    \/ (a = 100 /\ b = 64)
    \/ (a = 198 /\ (b = 18 \/ b = 19))

\* the range test of the 0x branch
HexRangeHit(a, b) ==
    \/ a = 127
    \/ a = 10
    \/ (a = 172 /\ b >= 16 /\ b <= 31)
    \/ (a = 192 /\ b = 168)
    \/ (a = 169 /\ b = 254)
    \/ a = 0

\* the decimal branch on num = Number(hostname)
DecimalNumPrivate(num) ==
    NumFits32(num) /\ DecimalRangeHit(OctetA(num), OctetB(num))

\* the 0x branch on num = Number(hostname)
HexNumPrivate(num) ==
    NumFits32(num) /\ HexRangeHit(OctetA(num), OctetB(num))

\* /^\d+$/
IsDecimalHost(hostname) == hostname # "" /\ IsDigitsOf(hostname, 10)

\* /^0x[0-9a-f]+$/i
IsHexHost(hostname) ==
    /\ Len(hostname) >= 3
    /\ HasHexPrefix(hostname)
    /\ IsDigitsOf(SubSeq(hostname, 3, Len(hostname)), 16)

isNumericPrivateIp(hostname) ==
    \/ IsDecimalHost(hostname) /\ DecimalNumPrivate(ParseRadix(hostname, 10))
    \/ IsHexHost(hostname)
       /\ HexNumPrivate(ParseRadix(SubSeq(hostname, 3, Len(hostname)), 16))

isPrivateIPv6(bare) ==
    LET lower == toLowerCase(bare)
    IN  \/ lower = "::1"
        \/ StartsWith(lower, "fc")
        \/ StartsWith(lower, "fd")
        \/ StartsWith(lower, "fe80")

\* the checks on the host without its brackets
PrivateBare(bare) ==
    \/ bare \in PRIVATE_HOSTS
    \/ (isIP(bare) = 4 /\ HasPrivatePrefix(bare))
    \/ (isIP(bare) = 6 /\ isPrivateIPv6(bare))

\* the checks on the result of extractMappedIPv4
PrivateMapped(mappedIpv4) ==
    /\ mappedIpv4 # Undefined
    /\ (mappedIpv4[1] \in PRIVATE_HOSTS \/ HasPrivatePrefix(mappedIpv4[1]))

\* the body of the try block, on parsed.protocol and the lower-cased
\* parsed.hostname
PrivateParsed(protocol, hostname) ==
    \/ (protocol # "http:" /\ protocol # "https:")
    \/ hostname \in PRIVATE_HOSTS
    \/ PrivateBare(StripBrackets(hostname))
    \/ PrivateMapped(extractMappedIPv4(hostname))
    \/ isNumericPrivateIp(hostname)

\* a catch block that returns false
PrivateOrUnparsedFailOpen(parsedOpt) ==
    IF parsedOpt = Undefined THEN FALSE
    ELSE PrivateParsed(parsedOpt[1].protocol, toLowerCase(parsedOpt[1].hostname))

\* new URL throws: the catch block returns true
PrivateOrUnparsed(parsedOpt) ==
    IF parsedOpt = Undefined THEN TRUE
    ELSE PrivateParsed(parsedOpt[1].protocol, toLowerCase(parsedOpt[1].hostname))

isPrivateUrl(urlStr) == PrivateOrUnparsed(ParseUrl(urlStr))

\* ------------------------------------------------------------------------
\* Per-provider rate limiter (token bucket)
\* ------------------------------------------------------------------------

MsPerSecond == 1000

MaxTokens == 10

RefillRate == 10

\* the number of token units in one token: one millisecond refills one unit
OneToken == MsPerSecond \div RefillRate

ProviderNames == {"google", "brave", "xai"}

\* the bucket getRateBucket creates on the first reference to a provider
NewBucket(t) ==
    [tokens |-> MaxTokens * OneToken, lastRefill |-> t,
     maxTokens |-> MaxTokens * OneToken, refillRate |-> RefillRate]

\* getRateBucket(provider) at time t: the map after the call; the bucket
\* returned is the map's entry for the provider
getRateBucket(buckets, provider, t) ==
    IF buckets[provider] = Undefined
    THEN [buckets EXCEPT ![provider] = Some(NewBucket(t))]
    ELSE buckets

\* a consumeToken that adds no tokens for the time elapsed
consumeTokenWithoutRefill(buckets, provider, t) ==
    LET got     == getRateBucket(buckets, provider, t)
        bucket  == got[provider][1]
        granted == ~(bucket.tokens < OneToken)
    IN  [granted |-> granted,
         buckets |-> [got EXCEPT ![provider] =
                        Some([bucket EXCEPT !.tokens = IF granted THEN bucket.tokens - OneToken
                                                       ELSE bucket.tokens,
                                            !.lastRefill = t])]]

\* a consumeToken that grants without taking the token
consumeTokenWithoutDebit(buckets, provider, t) ==
    LET got      == getRateBucket(buckets, provider, t)
        bucket   == got[provider][1]
        elapsed  == t - bucket.lastRefill
        refilled == Min(bucket.maxTokens,
                        bucket.tokens + (elapsed * bucket.refillRate * OneToken) \div MsPerSecond)
    IN  [granted |-> ~(refilled < OneToken),
         buckets |-> [got EXCEPT ![provider] =
                        Some([bucket EXCEPT !.tokens = refilled, !.lastRefill = t])]]

\* a consumeToken that takes a token also when it refuses
consumeTokenDebitOnRefusal(buckets, provider, t) ==
    LET got      == getRateBucket(buckets, provider, t)
        bucket   == got[provider][1]
        elapsed  == t - bucket.lastRefill
        refilled == Min(bucket.maxTokens,
                        bucket.tokens + (elapsed * bucket.refillRate * OneToken) \div MsPerSecond)
    IN  [granted |-> ~(refilled < OneToken),
         buckets |-> [got EXCEPT ![provider] =
                        Some([bucket EXCEPT !.tokens = refilled - OneToken, !.lastRefill = t])]]

\* consumeToken(provider) at time t: the value returned and the map after it
consumeToken(buckets, provider, t) ==
    LET got      == getRateBucket(buckets, provider, t)
        bucket   == got[provider][1]
        elapsed  == t - bucket.lastRefill
        refilled == Min(bucket.maxTokens,
                        bucket.tokens + (elapsed * bucket.refillRate * OneToken) \div MsPerSecond)
        granted  == ~(refilled < OneToken)
    IN  [granted |-> granted,
         buckets |-> [got EXCEPT ![provider] =
                        Some([bucket EXCEPT !.tokens = IF granted THEN refilled - OneToken
                                                       ELSE refilled,
                                            !.lastRefill = t])]]

\* ------------------------------------------------------------------------
\* Provider factory
\* ------------------------------------------------------------------------

\* a factory that asks Google for its API key only
buildProviderWithoutCx(name, config, env) ==
    CASE name = "google" ->
            LET apiKey == Coalesce(env.GOOGLE_SEARCH_API_KEY, config.providers.google.apiKey)
                cx     == Coalesce(env.GOOGLE_SEARCH_CX, config.providers.google.cx)
            IN  IF Falsy(apiKey) THEN Undefined
                ELSE Some([name |-> "google", apiKey |-> apiKey[1],
                           cx |-> Coalesce(cx, Some(""))[1]])
      [] name = "brave" ->
            LET apiKey == Coalesce(env.BRAVE_SEARCH_API_KEY, config.providers.brave.apiKey)
            IN  IF Falsy(apiKey) THEN Undefined
                ELSE Some([name |-> "brave", apiKey |-> apiKey[1]])
      [] name = "xai" ->
            LET apiKey == Coalesce(env.XAI_API_KEY, config.providers.xai.apiKey)
            IN  IF Falsy(apiKey) THEN Undefined
                ELSE Some([name |-> "xai", apiKey |-> apiKey[1]])
      [] OTHER -> Undefined

\* buildProvider(name, config) with process.env = env: Undefined for null,
\* else the provider instance with the credentials it was constructed with
buildProvider(name, config, env) ==
    CASE name = "google" ->
            LET apiKey == Coalesce(env.GOOGLE_SEARCH_API_KEY, config.providers.google.apiKey)
                cx     == Coalesce(env.GOOGLE_SEARCH_CX, config.providers.google.cx)
            IN  IF Falsy(apiKey) \/ Falsy(cx) THEN Undefined
                ELSE Some([name |-> "google", apiKey |-> apiKey[1], cx |-> cx[1]])
      [] name = "brave" ->
            LET apiKey == Coalesce(env.BRAVE_SEARCH_API_KEY, config.providers.brave.apiKey)
            IN  IF Falsy(apiKey) THEN Undefined
                ELSE Some([name |-> "brave", apiKey |-> apiKey[1]])
      [] name = "xai" ->
            LET apiKey == Coalesce(env.XAI_API_KEY, config.providers.xai.apiKey)
            IN  IF Falsy(apiKey) THEN Undefined
                ELSE Some([name |-> "xai", apiKey |-> apiKey[1]])
      [] OTHER -> Undefined

DEFAULT_PROVIDER_ORDER == <<"google", "brave", "xai">>

getProviderOrder(config) ==
    LET order == config.providerOrder
    IN  IF order # Undefined /\ Len(order[1]) > 0
        THEN SelectSeq(order[1], LAMBDA n : n \in {"google", "brave", "xai"})
        ELSE DEFAULT_PROVIDER_ORDER

\* ------------------------------------------------------------------------
\* Backend clients: what search(query, count) sends and returns
\* ------------------------------------------------------------------------

GoogleMaxPerRequest == 10

BraveMaxPerRequest == 20

XaiMaxSearchResults == 10

\* the result count the client of the named provider puts in its request
RequestedNum(name, count) ==
    CASE name = "google" -> Min(count, GoogleMaxPerRequest)
      [] name = "brave"  -> Min(count, BraveMaxPerRequest)
      [] name = "xai"    -> Min(count, XaiMaxSearchResults)

\* the results search resolves with, given the items of the response body:
\* Google and Brave map every item, xAI keeps the first count of them
ResolvedResults(name, count, items) ==
    IF name = "xai" THEN Take(items, count) ELSE items

\* the messages search can reject with: a non-2xx status of the API, the
\* transport timeout (AbortSignal.timeout), or a body response.json() cannot
\* parse
ApiLabel(name) ==
    CASE name = "google" -> "Google Search API"
      [] name = "brave"  -> "Brave Search API"
      [] name = "xai"    -> "xAI API"

FailureMessages(name) ==
    {ApiLabel(name) \o " returned 500: Server Error",
     "The operation was aborted due to timeout",
     "Unexpected token < in JSON at position 0"}

\* ------------------------------------------------------------------------
\* State
\* ------------------------------------------------------------------------

VARIABLES
    config,       \* the WebSearchPluginConfig given to buildWebSearchA2ATools
    env,          \* process.env: the four credential variables
    args,         \* the arguments of the handler invocation
    rateBuckets,  \* the module-level map of token buckets
    now,          \* Date.now()
    pc,           \* where the invocation stands: start, loop, awaiting, done
    count,        \* handler local: the clamped count
    order,        \* handler local: the candidate order
    idx,          \* handler local: the position of the for loop in order
    providerInstance, \* handler local: the provider whose search is awaited
    errors,       \* handler local: the diagnostics
    result,       \* the A2AToolResult returned, Undefined until then
    trace,        \* what the invocation did, in order: calls of
                  \* buildProvider, consumeToken and search
    invocations,  \* the handler invocations in flight together, each with
                  \* its own locals; empty when a single invocation is followed
    probe         \* a direct call of an exported or module-level function:
                  \* its argument and, once it returned, its value

vars == <<config, env, args, rateBuckets, now, pc, count, order, idx,
          providerInstance, errors, result, trace, invocations, probe>>

\* ------------------------------------------------------------------------
\* Inputs
\* ------------------------------------------------------------------------

\* the longest list of items a response body carries
MaxItems == 2

Query == "test"

GoodResult == [title |-> "Good", url |-> "https://example.com/1", snippet |-> "Public"]

BadResult == [title |-> "Bad", url |-> "http://127.0.0.1/secret", snippet |-> "Private"]

AlsoBadResult ==
    [title |-> "Also Bad", url |-> "http://169.254.169.254/metadata",
     snippet |-> "Cloud metadata"]

FileResult == [title |-> "File", url |-> "file:///etc/passwd", snippet |-> ""]

PublicIpResult == [title |-> "DNS", url |-> "http://8.8.8.8/", snippet |-> "Public"]

SampleResults == {GoodResult, PublicIpResult, BadResult, AlsoBadResult, FileResult}

\* isPrivateUrl is a pure function: its verdicts on the URLs of the sample
\* results are computed once
SampleUrls == {r.url : r \in SampleResults}

SampleVerdicts == [u \in SampleUrls |-> isPrivateUrl(u)]

IsPrivate(url) == IF url \in SampleUrls THEN SampleVerdicts[url] ELSE isPrivateUrl(url)

\* a filter that lets every result through
filterResultsKeepAll(results) == results

\* a filter that returns the safe results last to first
filterResultsReversed(results) ==
    LET kept == SelectSeq(results, LAMBDA r : ~IsPrivate(r.url))
    IN  [i \in 1..Len(kept) |-> kept[Len(kept) + 1 - i]]

\* results.filter((r) => !isPrivateUrl(r.url))
filterResults(results) == SelectSeq(results, LAMBDA r : ~IsPrivate(r.url))

RECURSIVE SeqsUpTo(_, _)
SeqsUpTo(S, n) ==
    IF n = 0 THEN {<<>>}
    ELSE LET shorter == SeqsUpTo(S, n - 1)
         IN  shorter \cup {Append(q, x) : q \in shorter, x \in S}

ItemLists == SeqsUpTo(SampleResults, MaxItems)

\* the clock readings between two steps: none, or the time one token takes
ElapsedChoices == {0, OneToken}

EnvOf(googleKey, googleCx, braveKey, xaiKey) ==
    [GOOGLE_SEARCH_API_KEY |-> googleKey, GOOGLE_SEARCH_CX |-> googleCx,
     BRAVE_SEARCH_API_KEY |-> braveKey, XAI_API_KEY |-> xaiKey]

\* config.providers?.<name>?.<field> is undefined when any link is absent
ProvidersOf(googleKey, googleCx, braveKey, xaiKey) ==
    [google |-> [apiKey |-> googleKey, cx |-> googleCx],
     brave  |-> [apiKey |-> braveKey],
     xai    |-> [apiKey |-> xaiKey]]

EnvsOver(V) == {EnvOf(a, b, c, d) : a \in V, b \in V, c \in V, d \in V}

ProvidersOver(V) == {ProvidersOf(a, b, c, d) : a \in V, b \in V, c \in V, d \in V}

NoProviders == ProvidersOf(Undefined, Undefined, Undefined, Undefined)

\* a bucket all of whose tokens were consumed at time 0
DrainedBucket == [NewBucket(0) EXCEPT !.tokens = 0]

BucketsWithDrained(D) ==
    [n \in ProviderNames |-> IF n \in D THEN Some(DrainedBucket) ELSE Undefined]

\* a call of the function fn with the argument arg, before it returns
ProbeOf(fn, arg) == [fn |-> fn, arg |-> arg, returned |-> Undefined]

\* no function is called directly
NoProbe == ProbeOf("", "")

\* the state after buildWebSearchA2ATools(config), before the handler runs,
\* for inputs drawn from the given sets
InitOver(Envs, Providers, Orders, Counts, Forced, Drained) ==
    /\ env \in Envs
    /\ config \in [providerOrder : Orders, providers : Providers]
    /\ args \in [query : {Query}, count : Counts, provider : Forced]
    /\ rateBuckets \in {BucketsWithDrained(D) : D \in Drained}
    /\ now = 0
    /\ pc = "start"
    /\ count = 0
    /\ order = <<>>
    /\ idx = 0
    /\ providerInstance = Undefined
    /\ errors = <<>>
    /\ result = Undefined
    /\ trace = <<>>
    /\ invocations = <<>>
    /\ probe = NoProbe

\* ------------------------------------------------------------------------
\* The handler
\* ------------------------------------------------------------------------

\* a clamp that forgets the upper limit
ClampCountWithoutCeiling(rawCount) == Max(1, Coalesce(rawCount, Some(5))[1])

\* Math.max(1, Math.min(rawCount ?? 5, 20))
ClampCount(rawCount) == Max(1, Min(Coalesce(rawCount, Some(5))[1], 20))

\* an order in which the configured chain follows the forced provider
CandidateOrderWithFallback(forcedProvider, cfg) ==
    IF ~Falsy(forcedProvider) THEN <<forcedProvider[1]>> \o getProviderOrder(cfg)
    ELSE getProviderOrder(cfg)

\* forcedProvider ? [forcedProvider] : getProviderOrder(config)
CandidateOrder(forcedProvider, cfg) ==
    IF ~Falsy(forcedProvider) THEN <<forcedProvider[1]>> ELSE getProviderOrder(cfg)

\* the text of the error result
FailureText(errs) ==
    LET RECURSIVE Lines(_)
        Lines(i) ==
            IF i > Len(errs) THEN ""
            ELSE "  - " \o errs[i] \o (IF i < Len(errs) THEN "\n" ELSE "") \o Lines(i + 1)
    IN  "All search providers failed:\n" \o Lines(1)
        \o "\n\nConfigure at least one provider via environment variables or config:\n"
        \o "  GOOGLE_SEARCH_API_KEY + GOOGLE_SEARCH_CX\n  BRAVE_SEARCH_API_KEY\n  XAI_API_KEY"

\* the handler up to the for loop
Enter ==
    /\ pc = "start"
    /\ count' = ClampCount(args.count)
    /\ order' = CandidateOrder(args.provider, config)
    /\ errors' = <<>>
    /\ idx' = 1
    /\ pc' = "loop"
    /\ UNCHANGED <<probe, invocations, config, env, args, rateBuckets, now, providerInstance, result, trace>>

\* a skip that records no diagnostic
NotConfiguredSilently ==
    /\ pc = "loop"
    /\ idx <= Len(order)
    /\ buildProvider(order[idx], config, env) = Undefined
    /\ idx' = idx + 1
    /\ trace' = Append(trace, [op |-> "buildProvider", pos |-> idx, name |-> order[idx],
                               instance |-> Undefined])
    /\ UNCHANGED <<probe, invocations, config, env, args, rateBuckets, now, pc, count, order,
                   providerInstance, errors, result>>

\* buildProvider returns null: the candidate is skipped
NotConfigured ==
    /\ pc = "loop"
    /\ idx <= Len(order)
    /\ buildProvider(order[idx], config, env) = Undefined
    /\ errors' = Append(errors, order[idx] \o ": not configured")
    /\ idx' = idx + 1
    /\ trace' = Append(trace, [op |-> "buildProvider", pos |-> idx, name |-> order[idx],
                               instance |-> Undefined])
    /\ UNCHANGED <<probe, invocations, config, env, args, rateBuckets, now, pc, count, order,
                   providerInstance, result>>

\* consumeToken returns false: the candidate is skipped
RateLimited ==
    \E dt \in ElapsedChoices :
        LET providerName == order[idx]
            built    == buildProvider(providerName, config, env)
            consumed == consumeToken(rateBuckets, providerName, now + dt)
        IN  /\ pc = "loop"
            /\ idx <= Len(order)
            /\ built # Undefined
            /\ ~consumed.granted
            /\ now' = now + dt
            /\ rateBuckets' = consumed.buckets
            /\ errors' = Append(errors, providerName \o ": rate limited")
            /\ idx' = idx + 1
            /\ trace' = trace \o
                 <<[op |-> "buildProvider", pos |-> idx, name |-> providerName, instance |-> built],
                   [op |-> "consumeToken", pos |-> idx, name |-> providerName, granted |-> FALSE]>>
            /\ UNCHANGED <<probe, invocations, config, env, args, pc, count, order, providerInstance, result>>

\* the candidate is configured and granted a token: its search is called
\* and the handler awaits it
StartSearch ==
    \E dt \in ElapsedChoices :
        LET providerName == order[idx]
            built    == buildProvider(providerName, config, env)
            consumed == consumeToken(rateBuckets, providerName, now + dt)
        IN  /\ pc = "loop"
            /\ idx <= Len(order)
            /\ built # Undefined
            /\ consumed.granted
            /\ now' = now + dt
            /\ rateBuckets' = consumed.buckets
            /\ providerInstance' = built
            /\ pc' = "awaiting"
            /\ trace' = trace \o
                 <<[op |-> "buildProvider", pos |-> idx, name |-> providerName, instance |-> built],
                   [op |-> "consumeToken", pos |-> idx, name |-> providerName, granted |-> TRUE],
                   [op |-> "search", pos |-> idx, name |-> built[1].name, query |-> args.query,
                    count |-> count, num |-> RequestedNum(built[1].name, count)]>>
            /\ UNCHANGED <<probe, invocations, config, env, args, count, order, idx, errors, result>>

\* a handler that treats an empty filtered list as a failed candidate
SearchReturnsUnlessEmpty ==
    \E items \in ItemLists :
        LET raw     == ResolvedResults(providerInstance[1].name, count, items)
            results == filterResults(raw)
        IN  /\ pc = "awaiting"
            /\ trace' = Append(trace, [op |-> "resolved", pos |-> idx, name |-> order[idx],
                                       raw |-> raw])
            /\ IF results = <<>>
               THEN /\ errors' = Append(errors, order[idx] \o ": no results")
                    /\ idx' = idx + 1
                    /\ pc' = "loop"
                    /\ UNCHANGED result
               ELSE /\ result' = Some([content |-> [provider |-> order[idx],
                                                    query |-> args.query,
                                                    resultCount |-> Len(results),
                                                    results |-> results]])
                    /\ pc' = "done"
                    /\ UNCHANGED <<errors, idx>>
            /\ UNCHANGED <<probe, invocations, config, env, args, rateBuckets, now, count, order,
                           providerInstance>>

\* the awaited search resolves: the results are filtered and returned
SearchReturns ==
    \E items \in ItemLists :
        LET raw     == ResolvedResults(providerInstance[1].name, count, items)
            results == filterResults(raw)
        IN  /\ pc = "awaiting"
            /\ result' = Some([content |-> [provider |-> order[idx], query |-> args.query,
                                            resultCount |-> Len(results),
                                            results |-> results]])
            /\ trace' = Append(trace, [op |-> "resolved", pos |-> idx, name |-> order[idx],
                                       raw |-> raw])
            /\ pc' = "done"
            /\ UNCHANGED <<probe, invocations, config, env, args, rateBuckets, now, count, order, idx,
                           providerInstance, errors>>

\* a search awaited outside the try block: the rejection leaves the handler
SearchThrowsUncaught ==
    /\ pc = "awaiting"
    /\ \E msg \in FailureMessages(providerInstance[1].name) :
        /\ pc' = "thrown"
        /\ providerInstance' = Undefined
        /\ trace' = Append(trace, [op |-> "rejected", pos |-> idx, name |-> order[idx],
                                   message |-> msg])
        /\ UNCHANGED <<probe, invocations, config, env, args, rateBuckets, now, count, order,
                       idx, errors, result>>

\* a catch block that records nothing
SearchThrowsSilently ==
    /\ pc = "awaiting"
    /\ \E msg \in FailureMessages(providerInstance[1].name) :
        /\ idx' = idx + 1
        /\ pc' = "loop"
        /\ providerInstance' = Undefined
        /\ trace' = Append(trace, [op |-> "rejected", pos |-> idx, name |-> order[idx],
                                   message |-> msg])
        /\ UNCHANGED <<probe, invocations, config, env, args, rateBuckets, now, count, order, errors, result>>

\* a catch block that gives the token of the failed call back
SearchThrowsRefunds ==
    /\ pc = "awaiting"
    /\ \E msg \in FailureMessages(providerInstance[1].name) :
        /\ errors' = Append(errors, order[idx] \o ": " \o msg)
        /\ idx' = idx + 1
        /\ pc' = "loop"
        /\ providerInstance' = Undefined
        /\ rateBuckets' = [rateBuckets EXCEPT ![order[idx]] =
                              Some([@[1] EXCEPT !.tokens = @ + OneToken])]
        /\ trace' = Append(trace, [op |-> "rejected", pos |-> idx, name |-> order[idx],
                                   message |-> msg])
        /\ UNCHANGED <<probe, invocations, config, env, args, now, count, order, result>>

\* a catch block that tries the failed candidate again
SearchThrowsRetries ==
    /\ pc = "awaiting"
    /\ \E msg \in FailureMessages(providerInstance[1].name) :
        /\ errors' = Append(errors, order[idx] \o ": " \o msg)
        /\ pc' = "loop"
        /\ providerInstance' = Undefined
        /\ trace' = Append(trace, [op |-> "rejected", pos |-> idx, name |-> order[idx],
                                   message |-> msg])
        /\ UNCHANGED <<probe, invocations, config, env, args, rateBuckets, now, count, order,
                       idx, result>>

\* the awaited search rejects: the message is recorded and the loop goes on
SearchThrows ==
    /\ pc = "awaiting"
    /\ \E msg \in FailureMessages(providerInstance[1].name) :
        /\ errors' = Append(errors, order[idx] \o ": " \o msg)
        /\ idx' = idx + 1
        /\ pc' = "loop"
        /\ providerInstance' = Undefined
        /\ trace' = Append(trace, [op |-> "rejected", pos |-> idx, name |-> order[idx],
                                   message |-> msg])
        /\ UNCHANGED <<probe, invocations, config, env, args, rateBuckets, now, count, order, result>>

\* every candidate was skipped or failed: the error result is returned
Exhausted ==
    /\ pc = "loop"
    /\ idx > Len(order)
    /\ result' = Some([content |-> FailureText(errors), isError |-> TRUE])
    /\ pc' = "done"
    /\ UNCHANGED <<probe, invocations, config, env, args, rateBuckets, now, count, order, idx,
                   providerInstance, errors, trace>>

Next ==
    \/ Enter
    \/ NotConfigured
    \/ RateLimited
    \/ StartSearch
    \/ SearchReturns
    \/ SearchThrows
    \/ Exhausted

\* ------------------------------------------------------------------------
\* Specifications
\* ------------------------------------------------------------------------

PresentOrAbsent == {Undefined, Some("env-key")}

NoEnv == EnvOf(Undefined, Undefined, Undefined, Undefined)

FullEnv == EnvOf(Some("env-key"), Some("env-cx"), Some("env-key"), Some("env-key"))

FullProviders ==
    ProvidersOf(Some("config-key"), Some("config-cx"), Some("config-key"), Some("config-key"))

ConfiguredOrders == {Undefined, Some(<<"xai", "brave">>), Some(<<"bing", "google">>)}

ForcedProviders == {Undefined, Some(""), Some("brave"), Some("google"), Some("bing")}

DrainedSets == {{}, {"google"}, ProviderNames}

\* the fallback chain: every combination of present and absent environment
\* credentials without credentials in the config, and credentials in the
\* config with an empty and a full environment; default, custom and partly
\* unknown orders; forced providers; fresh and drained buckets
Init ==
    \/ InitOver(EnvsOver(PresentOrAbsent), {NoProviders}, ConfiguredOrders,
                {Undefined}, ForcedProviders, DrainedSets)
    \/ InitOver({NoEnv, FullEnv}, {FullProviders}, ConfiguredOrders,
                {Undefined}, ForcedProviders, DrainedSets)

Spec == Init /\ [][Next]_vars

\* the largest requested count enumerated one by one
MaxRequestedCount == 21

BraveOnlyEnv == EnvOf(Undefined, Undefined, Some("env-key"), Undefined)

\* args.count absent, every integer from -1 to MaxRequestedCount, and 100
RequestedCounts ==
    {Undefined} \cup {Some(n) : n \in -1..MaxRequestedCount} \cup {Some(100)}

\* the count argument: every requested count against each backend, reached
\* through the default chain or forced, with all providers or Brave alone
\* configured
InitCount ==
    InitOver({FullEnv, BraveOnlyEnv}, {NoProviders}, {Undefined}, RequestedCounts,
             {Undefined, Some("brave"), Some("xai")}, {{}, {"google"}})

SpecCount == InitCount /\ [][Next]_vars

\* config.providerOrder: absent, empty, known names in another order, unknown
\* names alone and among known ones, a name listed twice
ProviderOrders ==
    {Undefined, Some(<<>>), Some(<<"brave", "google", "xai">>), Some(<<"bing">>),
     Some(<<"xai", "bing", "google">>), Some(<<"brave", "brave">>),
     Some(<<"google", "brave", "google">>)}

\* the configured order: every such order with all providers or Brave alone
\* configured, forced or not, with fresh buckets or Google's drained
InitOrder ==
    InitOver({FullEnv, BraveOnlyEnv}, {NoProviders}, ProviderOrders, {Undefined},
             {Undefined, Some("brave")}, {{}, {"google"}})

SpecOrder == InitOrder /\ [][Next]_vars

\* the handler's own code between two awaits: once called it runs on
HandlerRuns == Enter \/ NotConfigured \/ RateLimited \/ StartSearch \/ Exhausted

\* the awaited search settles: fetch resolves, or rejects at the latest when
\* AbortSignal.timeout fires
BackendAnswers == SearchReturns \/ SearchThrows

\* the handler under every configured order, with its code running on and
\* every search settling
SpecTermination ==
    InitOrder /\ [][Next]_vars /\ WF_vars(HandlerRuns) /\ WF_vars(BackendAnswers)

\* ------------------------------------------------------------------------
\* The classifier called on its own
\* ------------------------------------------------------------------------

\* strings new URL rejects
UnparsableInputs ==
    {"not-a-url", "", "http://", "http:///", "://x", "example.com/path", "//example.com/",
     "http://exa mple.com/", "http://[::1", "http://[1::2::3]/", "http://[::ffff:1.2.3]/",
     "http://4294967296/", "http://1.2.3.4.5/", "http://8.8.8.8:99999/", "http://8.8.8.8:x/",
     "1http://x/", ":foo", "https://", "http://256.1.1.1/", "http://0x100000000/"}

OtherSchemes ==
    {"file", "ftp", "FTP", "javascript", "data", "gopher", "ws", "wss", "mailto", "ssh",
     "httpx", "htt"}

\* what follows the colon: public, private and empty hosts, and no host
AfterScheme == {"//example.com/", "//8.8.8.8/x", "//127.0.0.1/", "///etc/passwd", "x"}

\* URLs with a scheme other than http and https
NonHttpInputs == {scheme \o ":" \o rest : scheme \in OtherSchemes, rest \in AfterScheme}

\* the first and second octets of the sampled dotted quads: the edges of
\* every reserved range and public values around them
FirstOctets == {0, 1, 8, 9, 10, 11, 100, 126, 127, 128, 169, 172, 192, 198, 203, 255}

SecondOctets == {0, 15, 16, 17, 18, 19, 20, 31, 32, 63, 64, 65, 127, 128, 167, 168, 253, 254, 255}

QuadText(a, b, c, d) ==
    DecString(a) \o "." \o DecString(b) \o "." \o DecString(c) \o "." \o DecString(d)

QuadUrl(a, b) == "http://" \o QuadText(a, b, 0, 1) \o "/"

QuadInputs ==
    {QuadUrl(a, b) : a \in FirstOctets, b \in SecondOctets}
    \cup {"https://user:pw@10.1.2.3:8443/x?y#z", "http://8.8.8.8/", "HTTP://192.168.1.1",
          "http://169.254.169.254/latest/meta-data/", "http://0.0.0.0/"}

\* bare numeric hosts in decimal and in hexadecimal, with the first two octets
\* of their value
NumericSamples ==
    {[dec |-> "2130706433", hex |-> "0x7f000001", a |-> 127, b |-> 0],
     [dec |-> "2147418113", hex |-> "0x7fff0001", a |-> 127, b |-> 255],
     [dec |-> "167772161", hex |-> "0xa000001", a |-> 10, b |-> 0],
     [dec |-> "180879361", hex |-> "0xac80001", a |-> 10, b |-> 200],
     [dec |-> "2886664193", hex |-> "0xac0f0001", a |-> 172, b |-> 15],
     [dec |-> "2886729729", hex |-> "0xac100001", a |-> 172, b |-> 16],
     [dec |-> "2887712769", hex |-> "0xac1f0001", a |-> 172, b |-> 31],
     [dec |-> "2887778305", hex |-> "0xac200001", a |-> 172, b |-> 32],
     [dec |-> "3232235521", hex |-> "0xc0a80001", a |-> 192, b |-> 168],
     [dec |-> "3232169985", hex |-> "0xc0a70001", a |-> 192, b |-> 167],
     [dec |-> "2851995649", hex |-> "0xa9fe0001", a |-> 169, b |-> 254],
     [dec |-> "2851930113", hex |-> "0xa9fd0001", a |-> 169, b |-> 253],
     [dec |-> "1", hex |-> "0x1", a |-> 0, b |-> 0],
     [dec |-> "5046273", hex |-> "0x4d0001", a |-> 0, b |-> 77],
     [dec |-> "1681915905", hex |-> "0x64400001", a |-> 100, b |-> 64],
     [dec |-> "1681850369", hex |-> "0x643f0001", a |-> 100, b |-> 63],
     [dec |-> "1681981441", hex |-> "0x64410001", a |-> 100, b |-> 65],
     [dec |-> "3323068417", hex |-> "0xc6120001", a |-> 198, b |-> 18],
     [dec |-> "3323133953", hex |-> "0xc6130001", a |-> 198, b |-> 19],
     [dec |-> "3323199489", hex |-> "0xc6140001", a |-> 198, b |-> 20],
     [dec |-> "134742017", hex |-> "0x8080001", a |-> 8, b |-> 8],
     [dec |-> "16842753", hex |-> "0x1010001", a |-> 1, b |-> 1],
     [dec |-> "3405774849", hex |-> "0xcb000001", a |-> 203, b |-> 0],
     [dec |-> "4294901761", hex |-> "0xffff0001", a |-> 255, b |-> 255],
     [dec |-> "2130706433", hex |-> "0X7F000001", a |-> 127, b |-> 0]}

\* the embedded addresses of the sampled IPv4-mapped hosts
MappedQuads ==
    {<<127, 0, 0, 1>>, <<10, 0, 0, 1>>, <<172, 16, 5, 4>>, <<172, 31, 255, 255>>,
     <<172, 32, 0, 1>>, <<192, 168, 1, 1>>, <<169, 254, 169, 254>>, <<0, 0, 0, 0>>,
     <<0, 1, 2, 3>>, <<100, 64, 0, 1>>, <<198, 18, 0, 1>>, <<198, 19, 7, 7>>,
     <<8, 8, 8, 8>>, <<1, 1, 1, 1>>, <<203, 0, 113, 9>>, <<255, 255, 255, 255>>}

\* "::ffff:a.b.c.d"
MappedDotted(q) == "::ffff:" \o QuadText(q[1], q[2], q[3], q[4])

\* "::ffff:HHHH:LLLL"
MappedHex(q) == "::ffff:" \o HexString(q[1] * 256 + q[2]) \o ":" \o HexString(q[3] * 256 + q[4])

MappedHosts == {MappedDotted(q) : q \in MappedQuads} \cup {MappedHex(q) : q \in MappedQuads}

MappedInputs ==
    {"http://[" \o h \o "]/" : h \in MappedHosts}
    \cup {"https://[" \o h \o "]:8443/x" : h \in MappedHosts}
    \cup {"http://[::FFFF:7F00:1]/", "http://[0:0:0:0:0:ffff:127.0.0.1]/",
          "http://[0000:0000:0000:0000:0000:ffff:0a00:0001]/"}

UrlInputs == UnparsableInputs \cup NonHttpInputs \cup QuadInputs \cup MappedInputs

NumericHostInputs == {r.dec : r \in NumericSamples} \cup {r.hex : r \in NumericSamples}

\* hostnames as isPrivateUrl passes them and the bare forms of the regular
\* expressions
MappedHostInputs ==
    {"[" \o h \o "]" : h \in MappedHosts} \cup MappedHosts
    \cup {"example.com", "[::1]", "[2001:db8::1]", "::ffff:1.2.3", "[::ffff:12345:1]"}

\* isPrivateUrl, isNumericPrivateIp and extractMappedIPv4, each about to be
\* called on one of the inputs
InitClassifier ==
    /\ env = NoEnv
    /\ config = [providerOrder |-> Undefined, providers |-> NoProviders]
    /\ args = [query |-> Query, count |-> Undefined, provider |-> Undefined]
    /\ rateBuckets = BucketsWithDrained({})
    /\ now = 0
    /\ pc = "start"
    /\ count = 0
    /\ order = <<>>
    /\ idx = 0
    /\ providerInstance = Undefined
    /\ errors = <<>>
    /\ result = Undefined
    /\ trace = <<>>
    /\ invocations = <<>>
    /\ probe \in {ProbeOf("isPrivateUrl", u) : u \in UrlInputs}
                 \cup {ProbeOf("isNumericPrivateIp", h) : h \in NumericHostInputs}
                 \cup {ProbeOf("extractMappedIPv4", h) : h \in MappedHostInputs}

handlerVars ==
    <<config, env, args, rateBuckets, now, pc, count, order, idx, providerInstance,
      errors, result, trace, invocations>>

CallIsPrivateUrl ==
    /\ probe.fn = "isPrivateUrl"
    /\ probe.returned = Undefined
    /\ probe' = [probe EXCEPT !.returned = Some(isPrivateUrl(probe.arg))]
    /\ UNCHANGED handlerVars

CallIsNumericPrivateIp ==
    /\ probe.fn = "isNumericPrivateIp"
    /\ probe.returned = Undefined
    /\ probe' = [probe EXCEPT !.returned = Some(isNumericPrivateIp(probe.arg))]
    /\ UNCHANGED handlerVars

CallExtractMappedIPv4 ==
    /\ probe.fn = "extractMappedIPv4"
    /\ probe.returned = Undefined
    /\ probe' = [probe EXCEPT !.returned = Some(extractMappedIPv4(probe.arg))]
    /\ UNCHANGED handlerVars

NextClassifier ==
    \/ CallIsPrivateUrl
    \/ CallIsNumericPrivateIp
    \/ CallExtractMappedIPv4

SpecClassifier == InitClassifier /\ [][NextClassifier]_vars

\* ------------------------------------------------------------------------
\* The rate limiter called on its own
\* ------------------------------------------------------------------------

\* the longest sequence of calls of consumeToken at arbitrary clock readings
MaxAttempts == 4

\* the longest sequence of calls of consumeToken in a burst
MaxBurst == 13

\* what Date.now() returns at a call: the wall clock may stand still, move on
\* by a millisecond, by the time of one token or by seconds, and may have
\* been set back
ClockReadings == {0, 1, OneToken, MsPerSecond, 2 * MsPerSecond}

\* consumeToken is about to be called, over and over, for one provider whose
\* bucket does not exist yet
InitConsume ==
    /\ env = NoEnv
    /\ config = [providerOrder |-> Undefined, providers |-> NoProviders]
    /\ args = [query |-> Query, count |-> Undefined, provider |-> Undefined]
    /\ rateBuckets = BucketsWithDrained({})
    /\ now = 0
    /\ pc = "start"
    /\ count = 0
    /\ order = <<>>
    /\ idx = 0
    /\ providerInstance = Undefined
    /\ errors = <<>>
    /\ result = Undefined
    /\ trace = <<>>
    /\ invocations = <<>>
    /\ probe \in {ProbeOf("consumeToken", n) : n \in ProviderNames}

\* consumeToken(probe.arg) with Date.now() reading t
ConsumeAt(t) ==
    /\ probe.fn = "consumeToken"
    /\ now' = t
    /\ rateBuckets' = consumeToken(rateBuckets, probe.arg, t).buckets
    /\ trace' = Append(trace, [op |-> "consumeToken", pos |-> 0, name |-> probe.arg,
                               granted |-> consumeToken(rateBuckets, probe.arg, t).granted,
                               at |-> t])
    /\ UNCHANGED <<probe, invocations, config, env, args, pc, count, order, idx,
                   providerInstance, errors, result>>

\* a call at any clock reading
ConsumeAtAnyReading ==
    /\ Len(trace) < MaxAttempts
    /\ \E t \in ClockReadings : ConsumeAt(t)

\* a call right after the one before, or once the time of one token has
\* passed
ConsumeInBurst ==
    /\ Len(trace) < MaxBurst
    /\ \E dt \in ElapsedChoices : ConsumeAt(now + dt)

SpecBucket == InitConsume /\ [][ConsumeAtAnyReading]_vars

SpecBurst == InitConsume /\ [][ConsumeInBurst]_vars

\* ------------------------------------------------------------------------
\* Invocations in flight together
\*
\* An invocation runs from one await to the next without interruption; the
\* steps below are finer than that, so every interleaving of the program is
\* an interleaving of the model.  consumeToken has no await in it: each of
\* its calls is a single step.
\* ------------------------------------------------------------------------

\* the number of invocations in flight together
NumInvocations == 3

\* the searches of earlier invocations, all started at clock reading 0, that
\* left Brave's bucket with one token less than there are invocations
PriorSearches ==
    [k \in 1..(MaxTokens - (NumInvocations - 1)) |->
        [op |-> "search", pos |-> 1, name |-> "brave", at |-> 0, by |-> 0]]

PriorBuckets ==
    [BucketsWithDrained({}) EXCEPT
        !["brave"] = Some([NewBucket(0) EXCEPT !.tokens = (NumInvocations - 1) * OneToken])]

\* how Date.now() changes between two calls of consumeToken: as for a single
\* invocation, or backwards when the wall clock was set back
WallClockSteps == ElapsedChoices \cup {-OneToken, -MsPerSecond}

\* the locals of an invocation that has not started
NotStarted == [pc |-> "start", order |-> <<>>, idx |-> 0]

\* Brave alone is configured and comes second in the configured order
InitConcurrent ==
    /\ env = BraveOnlyEnv
    /\ config = [providerOrder |-> Some(<<"google", "brave">>), providers |-> NoProviders]
    /\ args = [query |-> Query, count |-> Undefined, provider |-> Undefined]
    /\ rateBuckets = PriorBuckets
    /\ now = 0
    /\ pc = "start"
    /\ count = 0
    /\ order = <<>>
    /\ idx = 0
    /\ providerInstance = Undefined
    /\ errors = <<>>
    /\ result = Undefined
    /\ trace = PriorSearches
    /\ invocations = [i \in 1..NumInvocations |-> NotStarted]
    /\ probe = NoProbe

sharedVars ==
    <<probe, config, env, args, pc, count, order, idx, providerInstance, errors, result>>

\* the handler of an invocation up to the for loop
InvocationEnters ==
    \E i \in DOMAIN invocations :
        /\ invocations[i].pc = "start"
        /\ invocations' = [invocations EXCEPT
                              ![i] = [pc |-> "loop",
                                      order |-> CandidateOrder(args.provider, config),
                                      idx |-> 1]]
        /\ UNCHANGED <<sharedVars, rateBuckets, now, trace>>

\* the candidate of an invocation is not configured
InvocationSkips ==
    \E i \in DOMAIN invocations :
        /\ invocations[i].pc = "loop"
        /\ invocations[i].idx <= Len(invocations[i].order)
        /\ buildProvider(invocations[i].order[invocations[i].idx], config, env) = Undefined
        /\ invocations' = [invocations EXCEPT ![i].idx = @ + 1]
        /\ UNCHANGED <<sharedVars, rateBuckets, now, trace>>

\* an invocation calls consumeToken for its candidate: a refusal moves it to
\* the next candidate, a grant starts the search
InvocationConsumes ==
    \E i \in DOMAIN invocations, dt \in {d \in WallClockSteps : now + d >= 0} :
        LET providerName == invocations[i].order[invocations[i].idx]
            consumed     == consumeToken(rateBuckets, providerName, now + dt)
        IN  /\ invocations[i].pc = "loop"
            /\ invocations[i].idx <= Len(invocations[i].order)
            /\ buildProvider(providerName, config, env) # Undefined
            /\ now' = now + dt
            /\ rateBuckets' = consumed.buckets
            /\ trace' = Append(trace, [op |-> IF consumed.granted THEN "search" ELSE "refused",
                                       pos |-> invocations[i].idx, name |-> providerName,
                                       at |-> now + dt, by |-> i])
            /\ invocations' = IF consumed.granted
                              THEN [invocations EXCEPT ![i].pc = "awaiting"]
                              ELSE [invocations EXCEPT ![i].idx = @ + 1]
            /\ UNCHANGED sharedVars

\* the awaited search of an invocation resolves: the invocation returns
InvocationSucceeds ==
    \E i \in DOMAIN invocations :
        /\ invocations[i].pc = "awaiting"
        /\ invocations' = [invocations EXCEPT ![i].pc = "done"]
        /\ UNCHANGED <<sharedVars, rateBuckets, now, trace>>

\* the awaited search of an invocation rejects: the loop goes on
InvocationFails ==
    \E i \in DOMAIN invocations :
        /\ invocations[i].pc = "awaiting"
        /\ invocations' = [invocations EXCEPT ![i].pc = "loop", ![i].idx = @ + 1]
        /\ UNCHANGED <<sharedVars, rateBuckets, now, trace>>

\* an invocation has no candidate left: it returns the error result
InvocationExhausted ==
    \E i \in DOMAIN invocations :
        /\ invocations[i].pc = "loop"
        /\ invocations[i].idx > Len(invocations[i].order)
        /\ invocations' = [invocations EXCEPT ![i].pc = "done"]
        /\ UNCHANGED <<sharedVars, rateBuckets, now, trace>>

NextConcurrent ==
    \/ InvocationEnters
    \/ InvocationSkips
    \/ InvocationConsumes
    \/ InvocationSucceeds
    \/ InvocationFails
    \/ InvocationExhausted

SpecConcurrent == InitConcurrent /\ [][NextConcurrent]_vars

\* ------------------------------------------------------------------------
\* Properties
\* ------------------------------------------------------------------------

Returned == result # Undefined

IsSuccess == Returned /\ "isError" \notin DOMAIN result[1]

IsFailure == Returned /\ "isError" \in DOMAIN result[1]

\* the payload of a success result
Payload == result[1].content

\* the results the successful search resolved with, before the filter
RawResults == trace[Len(trace)].raw

Range(seq) == {seq[i] : i \in DOMAIN seq}

Occurrences(seq, x) == Cardinality({i \in DOMAIN seq : seq[i] = x})

\* sub is seq with some elements left out
RECURSIVE IsSubsequence(_, _)
IsSubsequence(sub, seq) ==
    IF sub = <<>> THEN TRUE
    ELSE IF seq = <<>> THEN FALSE
    ELSE IF Head(sub) = Head(seq) THEN IsSubsequence(Tail(sub), Tail(seq))
    ELSE IsSubsequence(sub, Tail(seq))

\* the sample results at loopback, link-local/metadata and non-http(s) URLs
UnsafeSamples == {BadResult, AlsoBadResult, FileResult}

\* C1 (no leak): every result of a success payload has a URL that
\* isPrivateUrl classifies as not private, and none of the sample results at
\* a loopback, metadata or non-http(s) URL is in a payload, whatever the
\* backend returned.
NoPrivateUrlReturned ==
    IsSuccess =>
        \A i \in DOMAIN Payload.results :
            /\ ~IsPrivate(Payload.results[i].url)
            /\ Payload.results[i] \notin UnsafeSamples

\* a success whose backend returned a public and a loopback result
NoPrivateUrlReturnedWitness ==
    /\ IsSuccess
    /\ RawResults = <<GoodResult, BadResult>>
    /\ Payload.results = <<GoodResult>>

\* C2 (filter): the results of a success payload are the raw results with
\* exactly the private ones left out: a subsequence of the raw results, every
\* safe result as often as in the raw results and unchanged, no private one,
\* and resultCount is the number of retained results.
FilterKeepsExactlyTheSafe ==
    IsSuccess =>
        /\ IsSubsequence(Payload.results, RawResults)
        /\ \A r \in Range(RawResults) \cup Range(Payload.results) :
              Occurrences(Payload.results, r) =
                 IF IsPrivate(r.url) THEN 0 ELSE Occurrences(RawResults, r)
        /\ Payload.resultCount = Len(Payload.results)
        /\ Payload.resultCount =
              Cardinality({i \in DOMAIN RawResults : ~IsPrivate(RawResults[i].url)})

\* two safe results are both kept, in the order the backend gave them
FilterKeepsExactlyTheSafeWitness ==
    /\ IsSuccess
    /\ RawResults = <<PublicIpResult, GoodResult>>
    /\ Payload.results = <<PublicIpResult, GoodResult>>
    /\ Payload.resultCount = 2

\* the positions in trace of the events of the candidate at position j
EventsAt(j) == {k \in DOMAIN trace : trace[k].pos = j}

\* the candidate at position j was skipped as not configured, skipped as
\* rate limited, or its search rejected
SkippedUnconfigured(j) ==
    \E k \in EventsAt(j) : trace[k].op = "buildProvider" /\ trace[k].instance = Undefined

SkippedRateLimited(j) ==
    \E k \in EventsAt(j) : trace[k].op = "consumeToken" /\ ~trace[k].granted

SearchRejected(j) == \E k \in EventsAt(j) : trace[k].op = "rejected"

SearchResolved(j) == \E k \in EventsAt(j) : trace[k].op = "resolved"

\* C3 (first success ends the chain): once a search has resolved, nothing
\* else is done: the resolution is the last thing in the trace, the handler
\* has returned a success naming that candidate, and no candidate after it
\* was resolved, charged a token or called; an empty filtered list is a
\* success with resultCount 0 all the same.
FirstSuccessEndsChain ==
    \A k \in DOMAIN trace :
        trace[k].op = "resolved" =>
            /\ k = Len(trace)
            /\ pc = "done"
            /\ IsSuccess
            /\ Payload.provider = trace[k].name
            /\ trace[k].name = order[trace[k].pos]
            /\ Payload.resultCount = Len(filterResults(trace[k].raw))
            /\ \A m \in DOMAIN trace : trace[m].pos <= trace[k].pos

\* the first candidate answers with private results only while the next
\* candidate is configured: the outcome is a success with no results
FirstSuccessEndsChainWitness ==
    /\ IsSuccess
    /\ idx = 1
    /\ Len(order) > 1
    /\ RawResults = <<BadResult>>
    /\ Payload.resultCount = 0
    /\ buildProvider(order[2], config, env) # Undefined

\* C4 (fallback order): the provider of a success is the candidate the loop
\* stands at; every candidate before it was attempted before it, did not
\* succeed (not configured, refused a token, or its search rejected) and left
\* exactly one diagnostic; the successful candidate was configured, granted a
\* token and resolved.
FallbackOrder ==
    IsSuccess =>
        /\ Payload.provider = order[idx]
        /\ \E k \in EventsAt(idx) : trace[k].op = "buildProvider" /\ trace[k].instance # Undefined
        /\ \E k \in EventsAt(idx) : trace[k].op = "consumeToken" /\ trace[k].granted
        /\ SearchResolved(idx)
        /\ Len(errors) = idx - 1
        /\ \A j \in 1..(idx - 1) :
              /\ StartsWith(errors[j], order[j] \o ": ")
              /\ SkippedUnconfigured(j) \/ SkippedRateLimited(j) \/ SearchRejected(j)
              /\ ~SearchResolved(j)
              /\ EventsAt(j) # {}
              /\ \A a \in EventsAt(j), b \in EventsAt(idx) : a < b

\* Google fails with a 500, Brave succeeds
FallbackOrderWitness ==
    /\ IsSuccess
    /\ order = <<"google", "brave", "xai">>
    /\ Payload.provider = "brave"
    /\ errors = <<"google: Google Search API returned 500: Server Error">>

\* C5 (forced provider): when the provider argument is given (a non-empty
\* string: the handler tests its truthiness), the candidate order is that
\* provider alone, nothing is done for any other provider, and an invocation
\* whose forced provider does not succeed ends in a failure with exactly one
\* diagnostic, whatever the configured order and the other providers.
ForcedProviderIsAlone ==
    (pc # "start" /\ ~Falsy(args.provider)) =>
        /\ order = <<args.provider[1]>>
        /\ \A k \in DOMAIN trace : trace[k].name = args.provider[1] /\ trace[k].pos = 1
        /\ (Returned /\ ~SearchResolved(1) => IsFailure /\ Len(errors) = 1)
        /\ (IsFailure => Len(errors) = 1)

\* Google is forced and not configured while Brave is configured, has
\* tokens and comes first in the configured order
ForcedProviderIsAloneWitness ==
    /\ IsFailure
    /\ args.provider = Some("google")
    /\ config.providerOrder = Some(<<"xai", "brave">>)
    /\ buildProvider("brave", config, env) # Undefined
    /\ rateBuckets["brave"] = Undefined
    /\ errors = <<"google: not configured">>

AllFailureMessages == UNION {FailureMessages(n) : n \in ProviderNames}

\* C6 (total exhaustion): an invocation returns a failure exactly when no
\* search resolved; the failure is flagged isError, its text is built from
\* the diagnostics, and the diagnostics hold one line per candidate in the
\* order of the candidates, each saying what happened to that candidate;
\* with no credential anywhere, no configured order and no forced provider
\* the lines are the three providers of the default order, not configured.
TotalExhaustion ==
    /\ Returned => (IsFailure <=> \A j \in 1..Len(order) : ~SearchResolved(j))
    /\ IsFailure =>
          /\ result[1].isError = TRUE
          /\ result[1].content = FailureText(errors)
          /\ Len(errors) = Len(order)
          /\ \A j \in 1..Len(order) :
                \/ errors[j] = order[j] \o ": not configured" /\ SkippedUnconfigured(j)
                \/ errors[j] = order[j] \o ": rate limited" /\ SkippedRateLimited(j)
                \/ \E k \in EventsAt(j) :
                      /\ trace[k].op = "rejected"
                      /\ errors[j] = order[j] \o ": " \o trace[k].message
          /\ (/\ env = NoEnv
              /\ config.providers = NoProviders
              /\ config.providerOrder = Undefined
              /\ args.provider = Undefined)
             => /\ Len(errors) = 3
                /\ Range(errors) = {n \o ": not configured" : n \in ProviderNames}

\* nothing is configured and nothing is forced
TotalExhaustionWitness ==
    /\ IsFailure
    /\ env = NoEnv
    /\ config.providers = NoProviders
    /\ config.providerOrder = Undefined
    /\ args.provider = Undefined
    /\ Len(errors) = 3

\* C7 (default order), as claimed: without a forced provider and without a
\* configured order the candidates are Brave, Google, xAI.
DefaultOrderIsBraveGoogleXai ==
    (pc # "start" /\ args.provider = Undefined /\ config.providerOrder = Undefined)
        => order = <<"brave", "google", "xai">>

\* the value a credential has when the explicit config overrides the
\* environment
ConfigFirst(configValue, envValue) == Coalesce(configValue, envValue)

\* C8 (credential precedence), as claimed: a provider is constructed with
\* the config value of each credential when there is one, and with the
\* environment value only when the config has none.
ConfigOverridesEnv ==
    \A k \in DOMAIN trace :
        (trace[k].op = "buildProvider" /\ trace[k].instance # Undefined) =>
            LET instance == trace[k].instance[1]
            IN  CASE trace[k].name = "google" ->
                        /\ Some(instance.apiKey) =
                              ConfigFirst(config.providers.google.apiKey,
                                          env.GOOGLE_SEARCH_API_KEY)
                        /\ Some(instance.cx) =
                              ConfigFirst(config.providers.google.cx, env.GOOGLE_SEARCH_CX)
                  [] trace[k].name = "brave" ->
                        Some(instance.apiKey) =
                           ConfigFirst(config.providers.brave.apiKey, env.BRAVE_SEARCH_API_KEY)
                  [] trace[k].name = "xai" ->
                        Some(instance.apiKey) =
                           ConfigFirst(config.providers.xai.apiKey, env.XAI_API_KEY)

\* a credential has no value in the environment nor in the config
NoValue(envValue, configValue) == Falsy(envValue) /\ Falsy(configValue)

\* the named candidate lacks a credential it requires
LacksCredential(name) ==
    CASE name = "google" ->
            \/ NoValue(env.GOOGLE_SEARCH_API_KEY, config.providers.google.apiKey)
            \/ NoValue(env.GOOGLE_SEARCH_CX, config.providers.google.cx)
      [] name = "brave" -> NoValue(env.BRAVE_SEARCH_API_KEY, config.providers.brave.apiKey)
      [] name = "xai" -> NoValue(env.XAI_API_KEY, config.providers.xai.apiKey)
      [] OTHER -> TRUE

\* C9 (not configured is a skip): a candidate that lacks a required
\* credential resolves as unavailable; an unavailable candidate leaves the
\* diagnostic '<identity>: not configured' at its position and nothing else
\* is done for it (no token, no search); the loop goes on past it, and a
\* failure is returned only after every candidate was resolved.
NotConfiguredIsASkip ==
    /\ \A k \in DOMAIN trace :
          trace[k].op = "buildProvider" =>
              /\ LacksCredential(trace[k].name) => trace[k].instance = Undefined
              /\ trace[k].instance = Undefined =>
                    /\ errors[trace[k].pos] = trace[k].name \o ": not configured"
                    /\ EventsAt(trace[k].pos) = {k}
                    /\ idx > trace[k].pos
                    /\ pc \in {"loop", "awaiting", "done"}
    /\ IsFailure =>
          \A j \in 1..Len(order) : \E k \in EventsAt(j) : trace[k].op = "buildProvider"

\* Google has its API key and no cx: it is skipped and Brave is searched
NotConfiguredIsASkipWitness ==
    /\ env.GOOGLE_SEARCH_API_KEY # Undefined
    /\ env.GOOGLE_SEARCH_CX = Undefined
    /\ config.providers = NoProviders
    /\ Len(trace) >= 4
    /\ trace[1] = [op |-> "buildProvider", pos |-> 1, name |-> "google", instance |-> Undefined]
    /\ trace[4].op = "search"
    /\ trace[4].name = "brave"
    /\ errors = <<"google: not configured">>

\* the count the handler is to hand to search, from the argument
ExpectedCount(rawCount) ==
    IF rawCount = Undefined THEN 5
    ELSE IF rawCount[1] < 1 THEN 1
    ELSE IF rawCount[1] > 20 THEN 20
    ELSE rawCount[1]

\* C10 (count clamping): every search is handed the requested count clamped
\* into 1..20 (5 when absent) and sends its API the smaller of that and the
\* backend's ceiling (Google 10, Brave 20, xAI 10); a request for 100
\* against Brave sends 20.
CountIsClamped ==
    \A k \in DOMAIN trace :
        trace[k].op = "search" =>
            /\ trace[k].count = ExpectedCount(args.count)
            /\ trace[k].count \in 1..20
            /\ trace[k].num =
                  Min(trace[k].count, CASE trace[k].name = "google" -> 10
                                        [] trace[k].name = "brave" -> 20
                                        [] trace[k].name = "xai" -> 10)
            /\ (args.count = Some(100) /\ trace[k].name = "brave") => trace[k].num = 20

\* Brave is searched on a request for 100 results
CountIsClampedWitness ==
    /\ args.count = Some(100)
    /\ \E k \in DOMAIN trace :
          /\ trace[k].op = "search"
          /\ trace[k].name = "brave"
          /\ trace[k].count = 20
          /\ trace[k].num = 20

\* C11 (error containment): a rejected search is caught for its candidate:
\* it leaves the diagnostic '<identity>: <message>' at the candidate's
\* position, the loop moves past the candidate, and when the invocation has
\* returned the candidate after it (if any) was attempted; the handler is
\* never left by an exception, an invocation that has not returned can
\* always take a step, and a returned invocation has exactly one outcome:
\* a success payload without an error flag, or an error text.
ErrorContainment ==
    /\ pc \in {"start", "loop", "awaiting", "done"}
    /\ pc # "done" => ENABLED Next
    /\ Returned <=> pc = "done"
    /\ Returned => (IsSuccess /\ ~IsFailure) \/ (IsFailure /\ ~IsSuccess)
    /\ IsSuccess => DOMAIN result[1] = {"content"}
    /\ IsFailure => result[1].content \in STRING
    /\ \A k \in DOMAIN trace :
          trace[k].op = "rejected" =>
              /\ errors[trace[k].pos] = trace[k].name \o ": " \o trace[k].message
              /\ idx > trace[k].pos
              /\ ~SearchResolved(trace[k].pos)
              /\ (Returned /\ trace[k].pos < Len(order)) => EventsAt(trace[k].pos + 1) # {}

\* Google answers with a body that is not JSON, Brave then succeeds
ErrorContainmentWitness ==
    /\ IsSuccess
    /\ Payload.provider = "brave"
    /\ errors = <<"google: Unexpected token < in JSON at position 0">>

\* the places in trace where the named provider's search was called
SearchCalls(name) == {k \in DOMAIN trace : trace[k].op = "search" /\ trace[k].name = name}

\* the places in trace where the named provider was resolved as a candidate
Attempts(name) == {k \in DOMAIN trace : trace[k].op = "buildProvider" /\ trace[k].name = name}

\* C12 (no retry within one call), as claimed: whatever providerOrder is
\* configured, within one invocation each provider's backend is called at
\* most once and no provider is attempted a second time.
NoProviderAttemptedTwice ==
    \A name \in ProviderNames :
        /\ Cardinality(SearchCalls(name)) <= 1
        /\ Cardinality(Attempts(name)) <= 1

\* the identities of a configured order that are known, in their order
KnownOf(configured) == SelectSeq(configured, LAMBDA n : n \in ProviderNames)

\* C13 (candidate order of a non-forced request), as claimed: the candidates
\* are the known identities of the configured order, in their order, and the
\* default order when the configured order is absent, empty, or empty once
\* the unknown identities are dropped; there is always a candidate.
NonForcedOrderIsKnownOrDefault ==
    (pc # "start" /\ Falsy(args.provider)) =>
        /\ order = IF config.providerOrder = Undefined
                      \/ KnownOf(config.providerOrder[1]) = <<>>
                   THEN DEFAULT_PROVIDER_ORDER
                   ELSE KnownOf(config.providerOrder[1])
        /\ Len(order) >= 1

\* the call of the named function has returned
ProbeReturned(fn) == probe.fn = fn /\ probe.returned # Undefined

\* C14 (fail-closed classification): what a call of isPrivateUrl returns is
\* a boolean, never an exception; it is true for every string new URL
\* rejects and for every URL whose scheme is not http or https, whatever
\* follows the scheme.
FailClosed ==
    ProbeReturned("isPrivateUrl") =>
        /\ probe.returned[1] \in BOOLEAN
        /\ probe.arg \in UnparsableInputs \cup NonHttpInputs => probe.returned[1] = TRUE

\* 'not-a-url' was classified
FailClosedWitness ==
    /\ ProbeReturned("isPrivateUrl")
    /\ probe.arg = "not-a-url"
    /\ probe.returned[1] = TRUE

\* a.b.*.* lies in one of the ranges 0/8, 10/8, 127/8, 169.254/16, 172.16/12,
\* 192.168/16, 100.64/10, 198.18/15
InReservedRange(a, b) ==
    \/ a = 0
    \/ a = 10
    \/ a = 127
    \/ (a = 169 /\ b = 254)
    \/ (a = 172 /\ b \in 16..31)
    \/ (a = 192 /\ b = 168)
    \/ (a = 100 /\ b \in 64..127)
    \/ (a = 198 /\ b \in 18..19)

\* C15 (reserved IPv4 ranges), as claimed: the URL of a dotted quad is
\* classified unsafe when the address lies in one of the reserved ranges,
\* the whole of 100.64.0.0/10 among them, and safe when it lies in none.
ReservedRangesAreUnsafe ==
    \A a \in FirstOctets, b \in SecondOctets :
        (ProbeReturned("isPrivateUrl") /\ probe.arg = QuadUrl(a, b))
            => probe.returned[1] = InReservedRange(a, b)

\* the first two octets are in 127.*, 10.*, 172.16-31.*, 192.168.*,
\* 169.254.*, 0.* or 100.64.*
InNumericRange(a, b) ==
    \/ a = 127
    \/ a = 10
    \/ (a = 172 /\ b \in 16..31)
    \/ (a = 192 /\ b = 168)
    \/ (a = 169 /\ b = 254)
    \/ a = 0
    \/ (a = 100 /\ b = 64)

\* C16 (numeric host encodings), as claimed: a bare numeric host whose value
\* decodes into one of the listed ranges is classified unsafe by the numeric
\* check in its decimal and in its hexadecimal spelling, and the two
\* spellings of a value get the same verdict.
NumericEncodingsAreUnsafe ==
    \A r \in NumericSamples :
        (ProbeReturned("isNumericPrivateIp") /\ probe.arg \in {r.dec, r.hex}) =>
            /\ InNumericRange(r.a, r.b) => probe.returned[1] = TRUE
            /\ probe.arg = r.hex => probe.returned[1] = isNumericPrivateIp(r.dec)

\* the spellings of the mapped host with the embedded address q, with and
\* without brackets
MappedSpellings(q) ==
    {MappedDotted(q), MappedHex(q), "[" \o MappedDotted(q) \o "]", "[" \o MappedHex(q) \o "]"}

MappedUrls(q) ==
    {"http://[" \o MappedDotted(q) \o "]/", "http://[" \o MappedHex(q) \o "]/",
     "https://[" \o MappedDotted(q) \o "]:8443/x", "https://[" \o MappedHex(q) \o "]:8443/x"}

\* C17 (IPv4-mapped IPv6 hosts): extractMappedIPv4 recovers from
\* ::ffff:a.b.c.d and from ::ffff:HHHH:LLLL the dotted quad of the four
\* octets of HHHH * 2^16 + LLLL, and the URL of such a host is classified
\* unsafe whenever that quad is in the host denylist or starts with a
\* reserved prefix.
MappedHostsAreUnsafe ==
    \A q \in MappedQuads :
        /\ (ProbeReturned("extractMappedIPv4") /\ probe.arg \in MappedSpellings(q))
              => probe.returned[1] = Some(QuadText(q[1], q[2], q[3], q[4]))
        /\ (/\ ProbeReturned("isPrivateUrl")
            /\ probe.arg \in MappedUrls(q)
            /\ \/ QuadText(q[1], q[2], q[3], q[4]) \in PRIVATE_HOSTS
               \/ HasPrivatePrefix(QuadText(q[1], q[2], q[3], q[4])))
              => probe.returned[1] = TRUE

\* the mapped form of 127.0.0.1 was classified
MappedHostsAreUnsafeWitness ==
    /\ ProbeReturned("isPrivateUrl")
    /\ probe.arg = "http://[::ffff:127.0.0.1]/"
    /\ probe.returned[1] = TRUE

\* C18 (token bucket invariant), as claimed: whatever the clock readings of
\* the calls, after each call of consumeToken the bucket holds at least 0
\* and at most maxTokens (10) tokens.
TokensWithinBounds ==
    \A name \in ProviderNames :
        rateBuckets[name] # Undefined =>
            /\ rateBuckets[name][1].maxTokens = 10 * OneToken
            /\ rateBuckets[name][1].tokens >= 0
            /\ rateBuckets[name][1].tokens <= rateBuckets[name][1].maxTokens

\* the first n calls were made at the clock reading of the first one
BurstOf(n) == \A k \in 1..n : trace[k].at = trace[1].at

\* C19 (burst then refill): from a fresh bucket, ten calls with no time
\* between them are all granted and an eleventh is refused; a twelfth call
\* 100 ms later is granted and a thirteenth right after it is refused.
BurstThenRefill ==
    /\ \A n \in 1..Min(Len(trace), 10) : BurstOf(n) => trace[n].granted
    /\ (Len(trace) >= 11 /\ BurstOf(11)) => ~trace[11].granted
    /\ (Len(trace) >= 12 /\ BurstOf(11) /\ trace[12].at = trace[1].at + 100)
          => trace[12].granted
    /\ (/\ Len(trace) >= 13
        /\ BurstOf(11)
        /\ trace[12].at = trace[1].at + 100
        /\ trace[13].at = trace[12].at)
          => ~trace[13].granted

\* the whole scenario has run
BurstThenRefillWitness ==
    /\ Len(trace) = 13
    /\ BurstOf(11)
    /\ trace[12].at = trace[1].at + 100
    /\ trace[13].at = trace[12].at
    /\ trace[10].granted
    /\ ~trace[11].granted
    /\ trace[12].granted
    /\ ~trace[13].granted

\* the clock readings at which searches of the named provider started
StartReadings(name) == {trace[k].at : k \in SearchCalls(name)}

\* the number of the given searches started at a clock reading from a to b
StartedWithin(calls, a, b) ==
    Cardinality({k \in calls : trace[k].at >= a /\ trace[k].at <= b})

\* C20 (request budget under concurrency): however the invocations
\* interleave, the searches of a provider started within any window of
\* clock readings, T = b - a milliseconds long, number at most
\* maxTokens + refillRate * T / 1000, that is 10 + 10 T / 1000; in
\* particular no more than 10 start at one reading, so no token is granted
\* twice.
RequestBudget ==
    \A name \in ProviderNames :
        \A a \in StartReadings(name), b \in StartReadings(name) :
            a <= b =>
                StartedWithin(SearchCalls(name), a, b) * 1000 <= 10 * 1000 + 10 * (b - a)

\* the budget is used up at one clock reading by invocations in flight
\* together, and the next one is refused
RequestBudgetWitness ==
    /\ StartedWithin(SearchCalls("brave"), 0, 0) = 10
    /\ \E i \in SearchCalls("brave"), j \in SearchCalls("brave") :
          /\ trace[i].by # 0
          /\ trace[j].by \notin {0, trace[i].by}
          /\ invocations[trace[i].by].pc = "awaiting"
          /\ invocations[trace[j].by].pc = "awaiting"
    /\ \E k \in DOMAIN trace : trace[k].op = "refused" /\ trace[k].at = 0

\* the step in which the handler's consumeToken call returned false
ThrottledStep ==
    /\ Len(trace') = Len(trace) + 2
    /\ trace'[Len(trace')].op = "consumeToken"
    /\ ~trace'[Len(trace')].granted

\* the tokens of a bucket once the time up to t is credited, in token units
AfterRefill(bucket, t) ==
    Min(bucket.maxTokens,
        bucket.tokens + ((t - bucket.lastRefill) * bucket.refillRate * OneToken) \div MsPerSecond)

\* C21 (throttled skip): in the step in which consumeToken returns false for
\* the candidate, its bucket is left with the tokens it has after the refill,
\* fewer than one and none taken; the handler appends
\* "<identity>: rate limited", starts no search, returns nothing yet and
\* stands at the next candidate.
ThrottledSkip ==
    [][ThrottledStep =>
         LET name == order[idx]
         IN  /\ rateBuckets[name] # Undefined
             /\ rateBuckets'[name][1].tokens = AfterRefill(rateBuckets[name][1], now')
             /\ rateBuckets'[name][1].tokens < OneToken
             /\ errors' = Append(errors, name \o ": rate limited")
             /\ \A k \in DOMAIN trace' : trace'[k].pos = idx => trace'[k].op # "search"
             /\ order' = order
             /\ idx' = idx + 1
             /\ pc' = "loop"
             /\ result' = result
             /\ providerInstance' = providerInstance]_vars

\* a candidate was refused a token, no search of it was started, and the
\* search of the next candidate was
ThrottledSkipWitness ==
    \E k \in DOMAIN trace :
        /\ trace[k].op = "consumeToken"
        /\ ~trace[k].granted
        /\ errors # <<>>
        /\ errors[trace[k].pos] = trace[k].name \o ": rate limited"
        /\ rateBuckets[trace[k].name][1].tokens < OneToken
        /\ \E j \in DOMAIN trace :
              /\ trace[j].op = "search"
              /\ trace[j].pos = trace[k].pos + 1

\* the step in which the handler's consumeToken call returned true and the
\* search of the candidate was called
GrantedStep ==
    /\ Len(trace') = Len(trace) + 3
    /\ trace'[Len(trace') - 1].op = "consumeToken"
    /\ trace'[Len(trace') - 1].granted

\* the bucket a call at reading t finds for the identity: the one in the
\* map, or the full one made on the first reference
BucketFound(buckets, name, t) ==
    IF buckets[name] = Undefined THEN NewBucket(t) ELSE buckets[name][1]

\* every identity but the given one has the bucket it had, or none as before
OthersUntouched(name) ==
    \A other \in ProviderNames \ {name} : rateBuckets'[other] = rateBuckets[other]

\* C22 (token accounting per attempt): a step of an invocation takes exactly
\* one token from the candidate's bucket, counted from its refilled amount,
\* if and only if the candidate is configured and consumeToken granted; the
\* same step leaves every other identity's bucket as it was. A refusal takes
\* nothing, and every other step (a candidate that is not configured, a
\* search that resolves or rejects, the entry and the return) leaves the
\* whole map of buckets as it was: nothing is created and nothing given back.
TokenAccounting ==
    [][IF GrantedStep
       THEN /\ buildProvider(order[idx], config, env) # Undefined
            /\ rateBuckets'[order[idx]][1].tokens =
                  AfterRefill(BucketFound(rateBuckets, order[idx], now'), now') - OneToken
            /\ OthersUntouched(order[idx])
       ELSE IF ThrottledStep
       THEN /\ buildProvider(order[idx], config, env) # Undefined
            /\ rateBuckets'[order[idx]][1].tokens =
                  AfterRefill(BucketFound(rateBuckets, order[idx], now'), now')
            /\ OthersUntouched(order[idx])
       ELSE rateBuckets' = rateBuckets]_vars

\* an invocation passed a candidate that is not configured, which has no
\* bucket, had a search fail, whose full bucket is one token short and not
\* given back, and started the search of a later candidate
TokenAccountingWitness ==
    \E a \in DOMAIN trace, b \in DOMAIN trace, c \in DOMAIN trace :
        /\ trace[a].op = "buildProvider"
        /\ trace[a].instance = Undefined
        /\ trace[a].name \in ProviderNames
        /\ rateBuckets[trace[a].name] = Undefined
        /\ trace[b].op = "rejected"
        /\ rateBuckets[trace[b].name] # Undefined
        /\ rateBuckets[trace[b].name][1].tokens = (MaxTokens - 1) * OneToken
        /\ trace[c].op = "search"
        /\ trace[c].pos > trace[b].pos
        /\ trace[c].name # trace[b].name

TimeoutMessage == "The operation was aborted due to timeout"

\* the events of the given kind that the candidate at position j has in trace
EventsOf(kind, j) == {k \in EventsAt(j) : trace[k].op = kind}

\* C23 (termination): with every search settling, the invocation eventually
\* returns an outcome and keeps it; until then and after, every candidate of
\* the order is resolved at most once and searched at most once, no event is
\* of a position beyond the order, and a search that timed out has its
\* message among the diagnostics while the loop stands past that candidate.
EveryInvocationReturns ==
    /\ <>[](pc = "done" /\ Returned)
    /\ [](pc # "start" =>
            /\ \A k \in DOMAIN trace : trace[k].pos \in 1..Len(order)
            /\ \A j \in 1..Len(order) :
                  /\ Cardinality(EventsOf("buildProvider", j)) <= 1
                  /\ Cardinality(EventsOf("search", j)) <= 1
            /\ \A k \in DOMAIN trace :
                  (trace[k].op = "rejected" /\ trace[k].message = TimeoutMessage) =>
                      /\ errors[trace[k].pos] = trace[k].name \o ": " \o TimeoutMessage
                      /\ idx > trace[k].pos)

\* an invocation returned after the search of its first candidate timed out
\* and the search of its second candidate was started
EveryInvocationReturnsWitness ==
    /\ pc = "done"
    /\ Returned
    /\ \E k \in EventsOf("rejected", 1) : trace[k].message = TimeoutMessage
    /\ EventsOf("search", 2) # {}
    /\ Cardinality(EventsOf("search", 1)) = 1

====
